---- MODULE Spec2Model ----
(***************************************************************************)
(* A model of scripts/matrix_to_ideogram_annots.py: one run of the script, *)
(* from the parsed command line to the written annotation file.            *)
(*                                                                         *)
(* Text is modelled as sequences of symbols (a token is a sequence of      *)
(* strings such as <<Q, PREVIZ, "A", ".", "1", Q>>), a line as the         *)
(* sequence of its tokens after str.split, and a file as the sequence of   *)
(* its lines.  Floats are modelled by integers; a value rounded to three   *)
(* decimals is modelled by its number of thousandths.  A Python dict is a  *)
(* record [keys, val]: keys in insertion order, val the mapping.           *)
(***************************************************************************)
EXTENDS Integers, Sequences, FiniteSets, TLC

VARIABLES
    cluster_names,      \* args.cluster_names
    cluster_paths,      \* args.cluster_paths
    fs_clusters,        \* content of the cluster files, by path
    fs_gen_pos,         \* content of the genomic position file
    fs_matrix,          \* content of the inferCNV output file
    pc,                 \* position of the run in the script
    err,                \* the exception that ended the run, if any
    open_files,         \* the files currently open
    opened,             \* the files opened so far, in order
    lines,              \* the local variable `lines` of the loader at work
    ci,                 \* index of the cluster get_clusters is loading
    clusters,           \* self.clusters
    genes,              \* self.genes
    matrix,             \* em_dict of get_expression_matrix_dict
    expression_means,   \* scores_lists of compute_gene_expression_means
    ideogram_annots,    \* the structure returned by get_ideogram_annots
    out_state,          \* the destination file: untouched, truncated, written
    out_content         \* what the destination file holds once written

vars == <<cluster_names, cluster_paths, fs_clusters, fs_gen_pos, fs_matrix,
          pc, err, open_files, opened, lines, ci, clusters, genes, matrix,
          expression_means, ideogram_annots, out_state, out_content>>

inputs == <<cluster_names, cluster_paths, fs_clusters, fs_gen_pos, fs_matrix>>

-----------------------------------------------------------------------------
(* Bounds of the model *)

MaxClusters == 2    \* cluster names and cluster paths on the command line
MaxMembers == 2     \* member lines of a cluster file
MaxCells == 3       \* cells of the matrix header
MaxRows == 2        \* gene rows of the matrix, where the values vary
MaxGenes == 3       \* gene rows of the matrix, where the gene ids vary
MaxPosLines == 2    \* lines of the position file

-----------------------------------------------------------------------------
(* Python containers and built-ins *)

EmptyDict == [keys |-> <<>>, val |-> <<>>]

DictHas(d, k) == k \in DOMAIN d.val

\* d[k] = v: a new key goes last, an existing key keeps its place
DictSet(d, k, v) ==
    [keys |-> IF DictHas(d, k) THEN d.keys ELSE Append(d.keys, k),
     val  |-> (k :> v) @@ d.val]

Range(s) == {s[i] : i \in 1..Len(s)}

RECURSIVE SumSeq(_)
SumSeq(s) == IF s = <<>> THEN 0 ELSE Head(s) + SumSeq(Tail(s))

\* round(x, 3) of x = num/den (den > 0), in thousandths, ties to even
Round3(num, den) ==
    LET q == (1000 * num) \div den
        r == (1000 * num) % den
    IN  IF 2 * r < den THEN q
        ELSE IF 2 * r > den THEN q + 1
        ELSE IF q % 2 = 0 THEN q ELSE q + 1

\* round(mean(xs), 3) for a non-empty list xs
RoundedMean(xs) == Round3(SumSeq(xs), Len(xs))

\* s[i] of a Python list, i any integer: a negative i counts from the end
PyIndexOk(s, i) == -Len(s) <= i /\ i < Len(s)
PyIndex(s, i) == IF i < 0 THEN s[Len(s) + i + 1] ELSE s[i + 1]

Q == "\""
PREVIZ == "PREVIZ."

RECURSIVE LStrip(_)
LStrip(s) == IF s # <<>> /\ Head(s) = Q THEN LStrip(Tail(s)) ELSE s

RECURSIVE RStrip(_)
RStrip(s) ==
    IF s # <<>> /\ s[Len(s)] = Q THEN RStrip(SubSeq(s, 1, Len(s) - 1)) ELSE s

\* token.strip('"')
StripQuotes(s) == RStrip(LStrip(s))

\* token.split('PREVIZ.'): the pieces between the occurrences of the marker
RECURSIVE SplitPreviz(_)
SplitPreviz(s) ==
    IF \E i \in 1..Len(s) : s[i] = PREVIZ
    THEN LET i == CHOOSE j \in 1..Len(s) :
                     s[j] = PREVIZ /\ \A k \in 1..(j - 1) : s[k] # PREVIZ
         IN  <<SubSeq(s, 1, i - 1)>> \o SplitPreviz(SubSeq(s, i + 1, Len(s)))
    ELSE <<s>>

\* token.replace('.', '-')
ReplaceDots(s) == [i \in 1..Len(s) |-> IF s[i] = "." THEN "-" ELSE s[i]]

\* int(token) and float(token): the tokens that parse, and their values
IntOf == (<<"0">> :> 0) @@ (<<"100">> :> 100) @@ (<<"250">> :> 250)
FloatOf == (<<"1">> :> 1) @@ (<<"2">> :> 2) @@ (<<"5">> :> 5)

NoErr == [kind |-> "", at |-> "", gene |-> <<>>]
Raise(kind, at, gene) == [kind |-> kind, at |-> at, gene |-> gene]


\* The outcome of a step that may raise: its value, or the exception
Ok(v) == [ok |-> TRUE, val |-> v, kind |-> "", gene |-> <<>>]
Fail(kind, gene) == [ok |-> FALSE, val |-> <<>>, kind |-> kind, gene |-> gene]

-----------------------------------------------------------------------------
(* get_clusters_meta and the three loaders, as functions of the file read *)

RECURSIVE ClustersMetaLoop(_, _, _, _)
ClustersMetaLoop(names, paths, i, d) ==
    IF i > Len(names) THEN d
    ELSE ClustersMetaLoop(names, paths, i + 1,
             DictSet(d, names[i], [path |-> paths[i], cells |-> <<>>]))

\* a get_clusters_meta that only refuses names without a path
get_clusters_meta_names_only(names, paths) ==
    IF Len(names) > Len(paths) THEN Fail("ValueError", <<>>)
    ELSE Ok(ClustersMetaLoop(names, paths, 1, EmptyDict))

\* get_clusters_meta: a ValueError when the two lists differ in length
get_clusters_meta(names, paths) ==
    IF Len(names) # Len(paths) THEN Fail("ValueError", <<>>)
    ELSE Ok(ClustersMetaLoop(names, paths, 1, EmptyDict))

\* get_clusters, the loop over lines[3:]: the first token of every line
RECURSIVE ClusterCells(_)
ClusterCells(ls) ==
    IF ls = <<>> THEN Ok(<<>>)
    ELSE IF Head(ls) = <<>> THEN Fail("IndexError", <<>>)
    ELSE LET rest == ClusterCells(Tail(ls))
         IN  IF rest.ok THEN Ok(<<Head(ls)[1]>> \o rest.val) ELSE rest

get_clusters_cells(ls) == ClusterCells(SubSeq(ls, 4, Len(ls)))

\* get_genes, the loop over the lines: id, chr, start, stop = columns
RECURSIVE GenesLoop(_, _)
GenesLoop(ls, d) ==
    IF ls = <<>> THEN Ok(d)
    ELSE LET columns == Head(ls)
         IN  IF Len(columns) # 4 THEN Fail("ValueError", <<>>)
             ELSE GenesLoop(Tail(ls),
                      DictSet(d, columns[1],
                              [id |-> columns[1], chr |-> columns[2],
                               start |-> columns[3], stop |-> columns[4]]))

get_genes(ls) == GenesLoop(ls, EmptyDict)

\* the cell identifier of a header token:
\* cell.strip('"').split('PREVIZ.')[1].replace('.', '-')
NormalizeOk(tok) == Len(SplitPreviz(StripQuotes(tok))) >= 2
Normalize(tok) == ReplaceDots(SplitPreviz(StripQuotes(tok))[2])

\* cells_dict: the loop over enumerate(cells_list), i counted from 0
RECURSIVE CellsLoop(_, _, _)
CellsLoop(toks, i, d) ==
    IF i >= Len(toks) THEN Ok(d)
    ELSE IF ~NormalizeOk(toks[i + 1]) THEN Fail("IndexError", <<>>)
    ELSE CellsLoop(toks, i + 1, (Normalize(toks[i + 1]) :> i) @@ d)

\* list(map(float, columns[1:]))
FloatsOk(toks) == \A i \in 1..Len(toks) : toks[i] \in DOMAIN FloatOf
Floats(toks) == [i \in 1..Len(toks) |-> FloatOf[toks[i]]]

\* the loop over lines[1:]: genes[gene] = expression_by_cell
RECURSIVE RowsLoop(_, _)
RowsLoop(ls, d) ==
    IF ls = <<>> THEN Ok(d)
    ELSE LET columns == Head(ls)
             gene == StripQuotes(columns[1])
         IN  IF ~FloatsOk(Tail(columns)) THEN Fail("ValueError", gene)
             ELSE RowsLoop(Tail(ls), DictSet(d, gene, Floats(Tail(columns))))

get_expression_matrix_dict(ls) ==
    IF ls = <<>> THEN Fail("IndexError", <<>>)
    ELSE LET cells_dict == CellsLoop(ls[1], 0, <<>>)
             rows == RowsLoop(Tail(ls), EmptyDict)
         IN  IF ~cells_dict.ok THEN cells_dict
             ELSE IF ~rows.ok THEN rows
             ELSE Ok([cells |-> cells_dict.val, genes |-> rows.val])

-----------------------------------------------------------------------------
(* compute_gene_expression_means *)

\* index_of_cell_in_matrix = cells[cluster_cell] - 1
index_of_cell_in_matrix(cells, cluster_cell) == cells[cluster_cell] - 1

\* the loop over cluster['cells']: the gene's value for every member cell
RECURSIVE cluster_expressions(_, _, _, _)
cluster_expressions(cluster_cells, cells, gene_exp_list, gene) ==
    IF cluster_cells = <<>> THEN Ok(<<>>)
    ELSE LET cluster_cell == Head(cluster_cells)
         IN  IF cluster_cell \notin DOMAIN cells THEN Fail("KeyError", gene)
             ELSE LET idx == index_of_cell_in_matrix(cells, cluster_cell)
                  IN  IF ~PyIndexOk(gene_exp_list, idx)
                      THEN Fail("IndexError", gene)
                      ELSE LET rest == cluster_expressions(Tail(cluster_cells),
                                           cells, gene_exp_list, gene)
                           IN  IF rest.ok
                               THEN Ok(<<PyIndex(gene_exp_list, idx)>> \o rest.val)
                               ELSE rest

\* mean_cluster_expression = round(mean(cluster_expressions), 3)
mean_cluster_expression(cluster_cells, cells, gene_exp_list, gene) ==
    LET xs == cluster_expressions(cluster_cells, cells, gene_exp_list, gene)
    IN  IF ~xs.ok THEN xs
        ELSE IF xs.val = <<>> THEN Fail("StatisticsError", gene)
        ELSE Ok(RoundedMean(xs.val))

\* a mean_expression_all that cuts the mean after three decimals
mean_expression_all_truncated(gene_exp_list) ==
    (1000 * SumSeq(gene_exp_list)) \div Len(gene_exp_list)

\* mean_expression_all = round(mean(gene_exp_list), 3)
mean_expression_all(gene_exp_list) == RoundedMean(gene_exp_list)

\* a loop over the clusters that puts every new mean in front of the others
RECURSIVE ClusterMeansLoopReversed(_, _, _, _, _)
ClusterMeansLoopReversed(cl, k, cells, gene_exp_list, gene) ==
    IF k > Len(cl.keys) THEN Ok(<<>>)
    ELSE LET m == mean_cluster_expression(cl.val[cl.keys[k]].cells, cells,
                                          gene_exp_list, gene)
         IN  IF ~m.ok THEN m
             ELSE LET rest == ClusterMeansLoopReversed(cl, k + 1, cells,
                                                       gene_exp_list, gene)
                  IN  IF rest.ok THEN Ok(rest.val \o <<m.val>>) ELSE rest

\* the loop `for name in clusters`, from the k-th cluster name on
RECURSIVE ClusterMeansLoop(_, _, _, _, _)
ClusterMeansLoop(cl, k, cells, gene_exp_list, gene) ==
    IF k > Len(cl.keys) THEN Ok(<<>>)
    ELSE LET m == mean_cluster_expression(cl.val[cl.keys[k]].cells, cells,
                                          gene_exp_list, gene)
         IN  IF ~m.ok THEN m
             ELSE LET rest == ClusterMeansLoop(cl, k + 1, cells,
                                               gene_exp_list, gene)
                  IN  IF rest.ok THEN Ok(<<m.val>> \o rest.val) ELSE rest

\* scores_list = [gene, mean_expression_all, cluster means...]
scores_list(gene, gene_exp_list, cl, cells) ==
    IF gene_exp_list = <<>> THEN Fail("StatisticsError", gene)
    ELSE LET ms == ClusterMeansLoop(cl, 1, cells, gene_exp_list, gene)
         IN  IF ~ms.ok THEN ms
             ELSE Ok(<<gene, mean_expression_all(gene_exp_list)>> \o ms.val)

\* the loop over enumerate(gene_expression_lists), from the i-th gene on
RECURSIVE ScoresLoop(_, _, _, _)
ScoresLoop(gene_expression_lists, i, cl, cells) ==
    IF i > Len(gene_expression_lists.keys) THEN Ok(<<>>)
    ELSE LET gene == gene_expression_lists.keys[i]
             row == scores_list(gene, gene_expression_lists.val[gene], cl, cells)
         IN  IF ~row.ok THEN row
             ELSE LET rest == ScoresLoop(gene_expression_lists, i + 1, cl, cells)
                  IN  IF rest.ok THEN Ok(<<row.val>> \o rest.val) ELSE rest

compute_gene_expression_means(m, cl) ==
    LET rows == ScoresLoop(m.genes, 1, cl, m.cells)
    IN  IF ~rows.ok THEN rows
        ELSE Ok(<<(<<"name", "all">> \o cl.keys)>> \o rows.val)

-----------------------------------------------------------------------------
(* get_ideogram_annots *)

\* annot = [gene_id, start, length] + expression_mean[1:]
annot_of(expression_mean, gene) ==
    LET start == IntOf[gene.start]
        stop == IntOf[gene.stop]
    IN  <<expression_mean[1], start, stop - start>> \o Tail(expression_mean)

\* a lookup that gives an unknown gene default coordinates: genes.get(...)
genes_get_default(g, gene_id) ==
    IF DictHas(g, gene_id) THEN Ok(g.val[gene_id])
    ELSE Ok([id |-> gene_id, chr |-> <<"chrUn">>,
             start |-> <<"0">>, stop |-> <<"0">>])

\* gene = genes[gene_id]: a KeyError when the table has no such gene
genes_getitem(g, gene_id) ==
    IF DictHas(g, gene_id) THEN Ok(g.val[gene_id]) ELSE Fail("KeyError", gene_id)

\* a bucket that is emptied for every gene: annots_by_chr[chr] = []
bucket_always_new(annots_by_chr, chr) == <<>>

\* if chr not in annots_by_chr: annots_by_chr[chr] = []
bucket_of(annots_by_chr, chr) ==
    IF DictHas(annots_by_chr, chr) THEN annots_by_chr.val[chr] ELSE <<>>

\* the loop over expression_means[1:], filling annots_by_chr
RECURSIVE AnnotsLoop(_, _, _)
AnnotsLoop(rows, g, annots_by_chr) ==
    IF rows = <<>> THEN Ok(annots_by_chr)
    ELSE LET expression_mean == Head(rows)
             gene_id == expression_mean[1]
             found == genes_getitem(g, gene_id)
         IN  IF ~found.ok THEN found
             ELSE LET gene == found.val
                      chr == gene.chr
                  IN  IF gene.start \notin DOMAIN IntOf
                         \/ gene.stop \notin DOMAIN IntOf
                      THEN Fail("ValueError", gene_id)
                      ELSE AnnotsLoop(Tail(rows), g,
                               DictSet(annots_by_chr, chr,
                                   Append(bucket_of(annots_by_chr, chr),
                                          annot_of(expression_mean, gene))))

\* an annots_list that walks annots_by_chr from its last key to its first
annots_list_reversed(annots_by_chr) ==
    [i \in 1..Len(annots_by_chr.keys) |->
        LET chr == annots_by_chr.keys[Len(annots_by_chr.keys) + 1 - i]
        IN  [chr |-> chr, annots |-> annots_by_chr.val[chr]]]

\* annots_list: one {chr, annots} per key of annots_by_chr, in its order
annots_list(annots_by_chr) ==
    [i \in 1..Len(annots_by_chr.keys) |->
        [chr |-> annots_by_chr.keys[i],
         annots |-> annots_by_chr.val[annots_by_chr.keys[i]]]]

get_ideogram_annots(means, g, cl) ==
    LET by_chr == AnnotsLoop(Tail(means), g, EmptyDict)
    IN  IF ~by_chr.ok THEN by_chr
        ELSE Ok([keys |-> <<"name", "start", "length", "all">> \o cl.keys,
                 annots |-> annots_list(by_chr.val)])

\* json.dumps(ideogram_annots): every dict becomes the list of its
\* (key, value) pairs in insertion order, every list stays a list
json_dumps(a) ==
    <<<<"keys", a.keys>>,
      <<"annots", [i \in 1..Len(a.annots) |->
                      <<<<"chr", a.annots[i].chr>>,
                        <<"annots", a.annots[i].annots>>>>]>>>>

-----------------------------------------------------------------------------
(* The run: __main__, __init__ and write_ideogram_annots, step by step *)

GEN_POS == "gen_pos_file"
MATRIX == "infercnv_output"
OUTPUT == "output_file"

Failed(kind, at, gene) ==
    /\ pc' = "failed"
    /\ err' = Raise(kind, at, gene)

\* __main__: clusters_meta = get_clusters_meta(cluster_names, cluster_paths)
Main ==
    /\ pc = "main"
    /\ LET r == get_clusters_meta(cluster_names, cluster_paths)
       IN  IF r.ok
           THEN /\ clusters' = r.val
                /\ pc' = "clusters_open"
                /\ err' = err
           ELSE /\ Failed(r.kind, "get_clusters_meta", r.gene)
                /\ clusters' = clusters
    /\ UNCHANGED <<inputs, open_files, opened, lines, ci, genes, matrix,
                   expression_means, ideogram_annots, out_state, out_content>>

cluster_path == clusters.val[clusters.keys[ci]].path

\* get_clusters: with open(cluster_path) as f
OpenCluster ==
    /\ pc = "clusters_open"
    /\ open_files' = open_files \cup {cluster_path}
    /\ opened' = Append(opened, cluster_path)
    /\ pc' = "clusters_read"
    /\ UNCHANGED <<inputs, err, lines, ci, clusters, genes, matrix,
                   expression_means, ideogram_annots, out_state, out_content>>

\* get_clusters: lines = f.readlines(), and the end of the with block
ReadCluster ==
    /\ pc = "clusters_read"
    /\ lines' = fs_clusters[cluster_path]
    /\ open_files' = open_files \ {cluster_path}
    /\ pc' = "clusters_parse"
    /\ UNCHANGED <<inputs, err, opened, ci, clusters, genes, matrix,
                   expression_means, ideogram_annots, out_state, out_content>>

\* get_clusters: the loop over lines[3:], clusters[name]['cells'] = cells,
\* and the next name of the loop (or the return to __init__)
ParseCluster ==
    /\ pc = "clusters_parse"
    /\ LET r == get_clusters_cells(lines)
           name == clusters.keys[ci]
       IN  IF r.ok
           THEN /\ clusters' = [clusters EXCEPT !.val[name].cells = r.val]
                /\ IF ci < Len(clusters.keys)
                   THEN ci' = ci + 1 /\ pc' = "clusters_open"
                   ELSE ci' = ci /\ pc' = "genes_open"
                /\ err' = err
           ELSE /\ Failed(r.kind, "get_clusters", r.gene)
                /\ UNCHANGED <<clusters, ci>>
    /\ lines' = <<>>
    /\ UNCHANGED <<inputs, open_files, opened, genes, matrix,
                   expression_means, ideogram_annots, out_state, out_content>>

\* get_genes: with open(self.genomic_position_file_path) as f
OpenGenPos ==
    /\ pc = "genes_open"
    /\ open_files' = open_files \cup {GEN_POS}
    /\ opened' = Append(opened, GEN_POS)
    /\ pc' = "genes_read"
    /\ UNCHANGED <<inputs, err, lines, ci, clusters, genes, matrix,
                   expression_means, ideogram_annots, out_state, out_content>>

ReadGenPos ==
    /\ pc = "genes_read"
    /\ lines' = fs_gen_pos
    /\ open_files' = open_files \ {GEN_POS}
    /\ pc' = "genes_parse"
    /\ UNCHANGED <<inputs, err, opened, ci, clusters, genes, matrix,
                   expression_means, ideogram_annots, out_state, out_content>>

ParseGenPos ==
    /\ pc = "genes_parse"
    /\ LET r == get_genes(lines)
       IN  IF r.ok
           THEN genes' = r.val /\ pc' = "matrix_open" /\ err' = err
           ELSE Failed(r.kind, "get_genes", r.gene) /\ genes' = genes
    /\ lines' = <<>>
    /\ UNCHANGED <<inputs, open_files, opened, ci, clusters, matrix,
                   expression_means, ideogram_annots, out_state, out_content>>

\* get_expression_matrix_dict: with open(self.infercnv_output) as f
OpenMatrix ==
    /\ pc = "matrix_open"
    /\ open_files' = open_files \cup {MATRIX}
    /\ opened' = Append(opened, MATRIX)
    /\ pc' = "matrix_read"
    /\ UNCHANGED <<inputs, err, lines, ci, clusters, genes, matrix,
                   expression_means, ideogram_annots, out_state, out_content>>

\* a reader without the with block: f = open(...); lines = f.readlines()
ReadMatrixKeepsOpen ==
    /\ pc = "matrix_read"
    /\ lines' = fs_matrix
    /\ pc' = "matrix_parse"
    /\ UNCHANGED <<inputs, err, open_files, opened, ci, clusters, genes, matrix,
                   expression_means, ideogram_annots, out_state, out_content>>

ReadMatrix ==
    /\ pc = "matrix_read"
    /\ lines' = fs_matrix
    /\ open_files' = open_files \ {MATRIX}
    /\ pc' = "matrix_parse"
    /\ UNCHANGED <<inputs, err, opened, ci, clusters, genes, matrix,
                   expression_means, ideogram_annots, out_state, out_content>>

ParseMatrix ==
    /\ pc = "matrix_parse"
    /\ LET r == get_expression_matrix_dict(lines)
       IN  IF r.ok
           THEN matrix' = r.val /\ pc' = "means" /\ err' = err
           ELSE Failed(r.kind, "get_expression_matrix_dict", r.gene)
                /\ matrix' = matrix
    /\ lines' = <<>>
    /\ UNCHANGED <<inputs, open_files, opened, ci, clusters, genes,
                   expression_means, ideogram_annots, out_state, out_content>>

\* compute_gene_expression_means, after the matrix is parsed
ComputeMeans ==
    /\ pc = "means"
    /\ LET r == compute_gene_expression_means(matrix, clusters)
       IN  IF r.ok
           THEN expression_means' = r.val /\ pc' = "annots" /\ err' = err
           ELSE Failed(r.kind, "compute_gene_expression_means", r.gene)
                /\ expression_means' = expression_means
    /\ UNCHANGED <<inputs, open_files, opened, lines, ci, clusters, genes,
                   matrix, ideogram_annots, out_state, out_content>>

\* a write_ideogram_annots that opens the destination before it builds the
\* annotations: with open(...) as f: f.write(json.dumps(get_ideogram_annots()))
GetAnnotsAfterOpen ==
    /\ pc = "annots"
    /\ LET r == get_ideogram_annots(expression_means, genes, clusters)
       IN  IF r.ok
           THEN ideogram_annots' = r.val /\ pc' = "out_write" /\ err' = err
                /\ open_files' = {OUTPUT}
           ELSE Failed(r.kind, "get_ideogram_annots", r.gene)
                /\ ideogram_annots' = ideogram_annots
                /\ open_files' = {}
    /\ opened' = Append(opened, OUTPUT)
    /\ out_state' = "truncated"
    /\ UNCHANGED <<inputs, lines, ci, clusters, genes, matrix,
                   expression_means, out_content>>

\* get_ideogram_annots, after the means are computed
GetAnnots ==
    /\ pc = "annots"
    /\ LET r == get_ideogram_annots(expression_means, genes, clusters)
       IN  IF r.ok
           THEN ideogram_annots' = r.val /\ pc' = "out_open" /\ err' = err
           ELSE Failed(r.kind, "get_ideogram_annots", r.gene)
                /\ ideogram_annots' = ideogram_annots
    /\ UNCHANGED <<inputs, open_files, opened, lines, ci, clusters, genes,
                   matrix, expression_means, out_state, out_content>>

\* write_ideogram_annots: json.dumps, then with open(self.output_file, 'w'),
\* which empties the file
OpenOutput ==
    /\ pc = "out_open"
    /\ open_files' = open_files \cup {OUTPUT}
    /\ opened' = Append(opened, OUTPUT)
    /\ out_state' = "truncated"
    /\ pc' = "out_write"
    /\ UNCHANGED <<inputs, err, lines, ci, clusters, genes, matrix,
                   expression_means, ideogram_annots, out_content>>

\* write_ideogram_annots: f.write(ideogram_annots_json), the end of the
\* with block, and the final print
WriteOutput ==
    /\ pc = "out_write"
    /\ out_content' = <<json_dumps(ideogram_annots)>>
    /\ out_state' = "written"
    /\ open_files' = open_files \ {OUTPUT}
    /\ pc' = "done"
    /\ UNCHANGED <<inputs, err, opened, lines, ci, clusters, genes, matrix,
                   expression_means, ideogram_annots>>

OpenStates == {"clusters_open", "genes_open", "matrix_open", "out_open"}
ReadStates == {"clusters_read", "genes_read", "matrix_read"}

\* open() raises: the file is not opened
OpenFails ==
    /\ pc \in OpenStates
    /\ Failed("IOError", pc, <<>>)
    /\ UNCHANGED <<inputs, open_files, opened, lines, ci, clusters, genes,
                   matrix, expression_means, ideogram_annots, out_state,
                   out_content>>

\* f.readlines() raises: the with block closes the file on the way out
ReadFails ==
    /\ pc \in ReadStates
    /\ Failed("IOError", pc, <<>>)
    /\ open_files' = {}
    /\ UNCHANGED <<inputs, opened, lines, ci, clusters, genes, matrix,
                   expression_means, ideogram_annots, out_state, out_content>>

\* f.write() raises: the with block closes the file, which stays emptied
WriteFails ==
    /\ pc = "out_write"
    /\ Failed("IOError", pc, <<>>)
    /\ open_files' = {}
    /\ UNCHANGED <<inputs, opened, lines, ci, clusters, genes, matrix,
                   expression_means, ideogram_annots, out_state, out_content>>

Next ==
    \/ Main
    \/ OpenCluster
    \/ ReadCluster
    \/ ParseCluster
    \/ OpenGenPos
    \/ ReadGenPos
    \/ ParseGenPos
    \/ OpenMatrix
    \/ ReadMatrix
    \/ ParseMatrix
    \/ ComputeMeans
    \/ GetAnnots
    \/ OpenOutput
    \/ WriteOutput
    \/ OpenFails
    \/ ReadFails
    \/ WriteFails

-----------------------------------------------------------------------------
(* The inputs of a run: the command line and the content of the files *)

SeqsBetween(S, lo, hi) == UNION {[1..k -> S] : k \in lo..hi}

Names == {"cA", "cB"}
PathList == <<"p1", "p2", "p3", "p4">>
Paths == {PathList[i] : i \in 1..MaxClusters}

\* cell identifiers as the cluster files spell them, and the header tokens
\* of the matrix that normalize to them; TokNoMarker lacks the PREVIZ. marker
CellA == <<"A", "-", "1">>
CellB == <<"B", "-", "1">>
CellC == <<"C", "-", "1">>
TokA == <<Q, PREVIZ, "A", ".", "1", Q>>
TokB == <<PREVIZ, "B", ".", "1">>
TokNoMarker == <<Q, "A", ".", "1", Q>>

\* a cluster file: three header lines, then one line per member cell
ClusterHeader == <<<<<<"#">>>>, <<<<"#">>>>, <<<<"#">>>>>>
ClusterFile(cells) == ClusterHeader \o [i \in 1..Len(cells) |-> <<cells[i]>>]
BlankLineFile == ClusterHeader \o <<<<>>>>
ShortFile == <<<<<<"#">>>>>>

\* the lines of a position file: id, chr, start, stop
PosLine(id, chr, start, stop) == <<<<id>>, <<chr>>, <<start>>, <<stop>>>>
BadStartLine == PosLine("g3", "chr2", "x", "100")
ThreeFieldLine == <<<<"g1">>, <<"chr1">>, <<"100">>>>
GoodPosLines == {PosLine("g1", "chr1", "100", "250"),
                 PosLine("g1", "chr2", "0", "100"),
                 PosLine("g2", "chr1", "0", "250"),
                 PosLine("g2", "chr2", "100", "100"),
                 PosLine("g3", "chr1", "250", "250")}
FullPosFile == <<PosLine("g1", "chr1", "100", "250"),
                 PosLine("g2", "chr2", "100", "100"),
                 PosLine("g3", "chr1", "250", "250")>>

\* the lines of a matrix file: the header, then a gene token and its values
GeneToks == {<<Q, "g1", Q>>, <<"g2">>, <<Q, "g3">>}
MatrixRow(gene, vals) == <<gene>> \o [i \in 1..Len(vals) |-> <<vals[i]>>]
MatrixFile(header, rows) == <<header>> \o rows

InitRun ==
    /\ pc = "main"
    /\ err = NoErr
    /\ open_files = {}
    /\ opened = <<>>
    /\ lines = <<>>
    /\ ci = 1
    /\ clusters = EmptyDict
    /\ genes = EmptyDict
    /\ matrix = <<>>
    /\ expression_means = <<>>
    /\ ideogram_annots = <<>>
    /\ out_state = "untouched"
    /\ out_content = <<>>

\* Spec: every command line, a few files of every kind, every fault
Init ==
    /\ cluster_names \in SeqsBetween(Names, 1, MaxClusters)
    /\ cluster_paths \in SeqsBetween(Paths, 1, MaxClusters)
    /\ fs_clusters \in [Paths -> {ClusterFile(<<CellA>>), BlankLineFile, ShortFile}]
    /\ fs_gen_pos \in {FullPosFile, <<ThreeFieldLine>>, <<BadStartLine>>, <<>>}
    /\ fs_matrix \in {<<>>,
                      MatrixFile(<<TokA, TokB>>, <<MatrixRow(<<"g2">>, <<"2", "5">>),
                                                  MatrixRow(<<Q, "g1", Q>>, <<"1", "2">>)>>),
                      MatrixFile(<<TokA>>, <<MatrixRow(<<Q, "g3">>, <<"1">>)>>),
                      MatrixFile(<<TokNoMarker>>, <<MatrixRow(<<"g2">>, <<"2">>)>>),
                      MatrixFile(<<TokA>>, <<MatrixRow(<<"g2">>, <<"x">>)>>)}
    /\ InitRun

Spec == Init /\ [][Next]_vars

\* a row of n values that differ from column to column, and its reverse
ColumnVals == <<"1", "2", "5">>
Ascending(n) == [i \in 1..n |-> ColumnVals[((i - 1) % 3) + 1]]
Descending(n) == [i \in 1..n |-> ColumnVals[((n - i) % 3) + 1]]
\* a header of n cells, A and B in turn
Alternating(n, first) ==
    [i \in 1..n |-> IF (i % 2 = 1) = first THEN TokA ELSE TokB]

\* SpecAgg: the matrices and the cluster memberships the aggregation meets
InitAgg ==
    /\ cluster_names \in {<<"cA">>, <<"cA", "cB">>, <<"cB", "cA">>, <<"cA", "cA">>}
    /\ cluster_paths = SubSeq(PathList, 1, Len(cluster_names))
    /\ \E members \in SeqsBetween({CellA, CellB, CellC}, 0, MaxMembers) :
          fs_clusters = [p \in Paths |-> IF p = "p1" THEN ClusterFile(members)
                                         ELSE ClusterFile(<<CellB>>)]
    /\ fs_gen_pos = FullPosFile
    /\ \E n \in 1..MaxCells, first \in BOOLEAN :
          \E rows \in SeqsBetween({MatrixRow(<<Q, "g1", Q>>, Ascending(n)),
                                   MatrixRow(<<"g2">>, Descending(n)),
                                   MatrixRow(<<"g2">>, <<>>)}, 0, MaxRows) :
             fs_matrix = MatrixFile(Alternating(n, first), rows)
    /\ InitRun

SpecAgg == InitAgg /\ [][Next]_vars

\* SpecAsm: the matrices and the position tables the assembly meets
InitAsm ==
    /\ cluster_names \in {<<"cA">>, <<"cB", "cA">>}
    /\ cluster_paths = SubSeq(PathList, 1, Len(cluster_names))
    /\ fs_clusters = [p \in Paths |-> ClusterFile(<<CellA>>)]
    /\ fs_gen_pos \in SeqsBetween(GoodPosLines \cup {BadStartLine, ThreeFieldLine},
                                  0, MaxPosLines)
    /\ \E gs \in SeqsBetween(GeneToks, 0, MaxGenes) :
          fs_matrix = MatrixFile(<<TokB, TokA>>,
                          [i \in 1..Len(gs) |-> MatrixRow(gs[i], <<"1", "2">>)])
    /\ InitRun

SpecAsm == InitAsm /\ [][Next]_vars

-----------------------------------------------------------------------------
(* What the claims speak of, read off the inputs and the written file *)

\* s without its repetitions, every element at its first place
RECURSIVE FirstOccurrences(_)
FirstOccurrences(s) ==
    IF s = <<>> THEN <<>>
    ELSE LET r == FirstOccurrences(SubSeq(s, 1, Len(s) - 1))
         IN  IF s[Len(s)] \in Range(r) THEN r ELSE Append(r, s[Len(s)])

LastIndex(s, x) == CHOOSE i \in 1..Len(s) :
                      s[i] = x /\ \A j \in (i + 1)..Len(s) : s[j] # x

\* the gene rows of the matrix file, their gene ids in row order, the
\* distinct gene ids in the order of their first row, a gene's last row
MatrixRows == IF fs_matrix = <<>> THEN <<>> ELSE Tail(fs_matrix)
RowGenes == [i \in 1..Len(MatrixRows) |-> StripQuotes(MatrixRows[i][1])]
MatrixGenes == FirstOccurrences(RowGenes)
RowValues(g) == Floats(Tail(MatrixRows[LastIndex(RowGenes, g)]))

\* the cells of the matrix header, and the zero-based column of a cell
HeaderCells == [i \in 1..Len(fs_matrix[1]) |-> Normalize(fs_matrix[1][i])]
ColumnsOf(cell) == {i \in 0..(Len(HeaderCells) - 1) : HeaderCells[i + 1] = cell}
ColumnOf(cell) == CHOOSE i \in ColumnsOf(cell) : TRUE

\* the clusters in declaration order, and the member cells of a cluster
DeclaredNames == FirstOccurrences(cluster_names)
MembersOf(name) ==
    LET ls == fs_clusters[cluster_paths[LastIndex(cluster_names, name)]]
    IN  [i \in 1..(Len(ls) - 3) |-> ls[i + 3][1]]

\* the position table as a mapping: a gene's last line
TableIds == [i \in 1..Len(fs_gen_pos) |-> fs_gen_pos[i][1]]
TableLine(g) == fs_gen_pos[LastIndex(TableIds, g)]
TableChr(g) == TableLine(g)[2]
MissingGenes == {g \in Range(MatrixGenes) : g \notin Range(TableIds)}

\* the run got past compute_gene_expression_means / get_ideogram_annots
MeansComputed ==
    \/ pc \in {"annots", "out_open", "out_write", "done"}
    \/ pc = "failed" /\ err.at \in {"get_ideogram_annots", "out_open", "out_write"}
AnnotsBuilt ==
    \/ pc \in {"out_open", "out_write", "done"}
    \/ pc = "failed" /\ err.at \in {"out_open", "out_write"}
ScoreRows == Tail(expression_means)

\* the written file read back: its keys and its {chr, annots} buckets
WrittenKeys == out_content[1][1][2]
WrittenBuckets == out_content[1][2][2]
BucketChr(b) == b[1][2]
BucketAnnots(b) == b[2][2]
BucketGenes(b) == [j \in 1..Len(BucketAnnots(b)) |-> BucketAnnots(b)[j][1]]
WrittenChrs == [i \in 1..Len(WrittenBuckets) |-> BucketChr(WrittenBuckets[i])]
\* the order of the output: per bucket, its chromosome and its gene ids
WrittenOrder ==
    [i \in 1..Len(WrittenBuckets) |->
        <<BucketChr(WrittenBuckets[i]), BucketGenes(WrittenBuckets[i])>>]

-----------------------------------------------------------------------------
(* C1 *)

\* the mean of the gene's values in the columns of the member cells
MemberColumnsMean(g, members) ==
    RoundedMean([j \in 1..Len(members) |-> RowValues(g)[ColumnOf(members[j]) + 1]])

\* C1: for every gene row and every cluster whose member cells all occur in
\* the matrix header, the cluster mean of the score row is the rounded mean
\* of the gene's values in the columns of the member cells (a member cell in
\* header column 0 contributes the value of column 0).
C1_ClusterMeanOverMemberColumns ==
    MeansComputed =>
        \A i \in 1..Len(ScoreRows), k \in 1..Len(DeclaredNames) :
            LET g == ScoreRows[i][1]
                members == MembersOf(DeclaredNames[k])
            IN  (/\ members # <<>>
                 /\ \A j \in 1..Len(members) :
                       /\ Cardinality(ColumnsOf(members[j])) = 1
                       /\ ColumnOf(members[j]) < Len(RowValues(g)))
                => ScoreRows[i][2 + k] = MemberColumnsMean(g, members)

-----------------------------------------------------------------------------
(* C2 *)

\* C2: the mean_all of every score row is the rounded mean of the gene's
\* full row of the matrix file, whatever the clusters are: it is a function
\* of the matrix file alone.
C2_MeanAllIsRowMean ==
    MeansComputed =>
        /\ Len(ScoreRows) = Len(MatrixGenes)
        /\ \A i \in 1..Len(ScoreRows) :
              /\ ScoreRows[i][1] = MatrixGenes[i]
              /\ ScoreRows[i][2] = Round3(SumSeq(RowValues(MatrixGenes[i])),
                                          Len(RowValues(MatrixGenes[i])))

\* a run of two clusters over a three-cell matrix, with a gene whose mean
\* over all cells is rounded and differs from both of its cluster means
C2_Witness ==
    /\ MeansComputed
    /\ Len(DeclaredNames) = 2
    /\ \E i \in 1..Len(ScoreRows) :
          /\ ScoreRows[i][2] = 2667
          /\ ScoreRows[i][3] # ScoreRows[i][2]
          /\ ScoreRows[i][4] # ScoreRows[i][2]

-----------------------------------------------------------------------------
(* C5 *)

ZeroValidCells(name) ==
    \A j \in 1..Len(MembersOf(name)) : MembersOf(name)[j] \notin Range(HeaderCells)

\* C5: when aggregation runs over a cluster that has no valid member cell
\* (no member at all, or none in the matrix header), it fails with a
\* DataError, not with another kind of fault.
C5_ZeroValidCellsRaiseDataError ==
    (/\ MeansComputed \/ (pc = "failed" /\ err.at = "compute_gene_expression_means")
     /\ MatrixGenes # <<>>
     /\ \A i \in 1..Len(MatrixGenes) : RowValues(MatrixGenes[i]) # <<>>
     /\ \E k \in 1..Len(DeclaredNames) : ZeroValidCells(DeclaredNames[k]))
    => (pc = "failed" /\ err.kind = "DataError")

-----------------------------------------------------------------------------
(* C3 *)

\* C3: when the number of cluster names differs from the number of cluster
\* paths, the run fails with the ValueError of get_clusters_meta and no file
\* has been opened before: nothing is open, nothing was ever opened, and
\* the destination is untouched.
C3_MismatchFailsBeforeAnyOpen ==
    Len(cluster_names) # Len(cluster_paths) =>
        /\ pc \in {"main", "failed"}
        /\ pc = "failed" => err = Raise("ValueError", "get_clusters_meta", <<>>)
        /\ opened = <<>>
        /\ open_files = {}
        /\ out_state = "untouched"

\* a run with more paths than names has failed
C3_Witness ==
    /\ Len(cluster_names) < Len(cluster_paths)
    /\ pc = "failed"
    /\ err.kind = "ValueError"

-----------------------------------------------------------------------------
(* C4 *)

\* every step before the write ended without an error, on these inputs
StepsSucceeded ==
    /\ \A i \in 1..Len(DeclaredNames) :
          LET loaded == get_clusters_cells(
                            fs_clusters[clusters.val[DeclaredNames[i]].path])
          IN  loaded.ok /\ clusters.val[DeclaredNames[i]].cells = loaded.val
    /\ get_genes(fs_gen_pos).ok
    /\ get_expression_matrix_dict(fs_matrix).ok
    /\ LET m == get_expression_matrix_dict(fs_matrix).val
           means == compute_gene_expression_means(m, clusters)
       IN  /\ means.ok
           /\ get_ideogram_annots(means.val, get_genes(fs_gen_pos).val, clusters).ok

WrittenGenes ==
    UNION {Range(BucketGenes(WrittenBuckets[i])) : i \in 1..Len(WrittenBuckets)}

\* C4: the destination is opened only after every loading, parsing,
\* aggregation and assembly step has succeeded; a run that fails in any of
\* them never opened or changed the destination; and a written destination
\* holds the whole annotation structure, with every gene of the matrix.
C4_NoPartialOutput ==
    /\ (out_state # "untouched" \/ OUTPUT \in Range(opened)) =>
          /\ StepsSucceeded
          /\ pc \in {"out_write", "done", "failed"}
          /\ pc = "failed" => err.at = "out_write"
    /\ (pc = "failed" /\ err.at # "out_write") =>
          /\ out_state = "untouched"
          /\ out_content = <<>>
          /\ OUTPUT \notin Range(opened)
    /\ out_state = "written" =>
          /\ pc = "done"
          /\ out_content = <<json_dumps(ideogram_annots)>>
          /\ WrittenGenes = Range(MatrixGenes)

\* a finished run that wrote the annotations of two genes
C4_Witness ==
    /\ pc = "done"
    /\ out_state = "written"
    /\ Cardinality(WrittenGenes) = 2

-----------------------------------------------------------------------------
(* C10 *)

\* C10: at most one file is open at a time; a file is open only between its
\* open and the end of its read (or write); when a loader parses, its file
\* is closed and `lines` holds all of it; and no file stays open in the
\* states where the next file is opened, nor after a failure.
C10_OneFileOpenAtATime ==
    /\ Cardinality(open_files) <= 1
    /\ open_files # {} =>
          /\ pc \in ReadStates \cup {"out_write"}
          /\ open_files = {opened[Len(opened)]}
    /\ pc = "clusters_parse" => lines = fs_clusters[cluster_path]
    /\ pc = "genes_parse" => lines = fs_gen_pos
    /\ pc = "matrix_parse" => lines = fs_matrix
    /\ pc \in OpenStates \cup {"failed", "done"} => open_files = {}

\* the matrix file, the third or later file of the run, failed to be read
C10_Witness ==
    /\ pc = "failed"
    /\ err = Raise("IOError", "matrix_read", <<>>)
    /\ Len(opened) >= 3
    /\ opened[Len(opened)] = MATRIX

-----------------------------------------------------------------------------
(* C6 *)

\* the first gene of the matrix, in row order, that the table lacks, and
\* whether the assembly gets as far as that gene
FirstMissingIndex ==
    CHOOSE i \in 1..Len(MatrixGenes) :
        /\ MatrixGenes[i] \in MissingGenes
        /\ \A j \in 1..(i - 1) : MatrixGenes[j] \notin MissingGenes
ReachesMissingGene ==
    /\ MissingGenes # {}
    /\ \A j \in 1..(FirstMissingIndex - 1) :
          /\ TableLine(MatrixGenes[j])[3] \in DOMAIN IntOf
          /\ TableLine(MatrixGenes[j])[4] \in DOMAIN IntOf
AssemblyRan == AnnotsBuilt \/ (pc = "failed" /\ err.at = "get_ideogram_annots")

\* C6: when a gene of the matrix is absent from the position table, no
\* annotation structure is ever returned or written, and an assembly that
\* gets to that gene ends the run with a KeyError at that gene.
C6_MissingGeneRaisesKeyError ==
    /\ MissingGenes # {} =>
          /\ ~AnnotsBuilt
          /\ pc # "done"
          /\ out_state = "untouched"
          /\ ideogram_annots = <<>>
    /\ (AssemblyRan /\ ReachesMissingGene) =>
          /\ pc = "failed"
          /\ err = Raise("KeyError", "get_ideogram_annots",
                         MatrixGenes[FirstMissingIndex])

\* the assembly took the first gene and failed at the second one
C6_Witness ==
    /\ pc = "failed"
    /\ err.at = "get_ideogram_annots"
    /\ err.kind = "KeyError"
    /\ Len(MatrixGenes) >= 2
    /\ err.gene = MatrixGenes[2]

-----------------------------------------------------------------------------
(* C7 *)

\* the places <<bucket, record>> of the written records of gene g
RecordsOf(g) ==
    {<<i, j>> \in (1..Len(WrittenBuckets)) \X (1..MaxGenes + 1) :
        /\ j <= Len(BucketAnnots(WrittenBuckets[i]))
        /\ BucketAnnots(WrittenBuckets[i])[j][1] = g}

\* C7: in a written file every distinct gene of the matrix has exactly one
\* record, in the bucket of its chromosome of the position table; no
\* chromosome has two buckets and no bucket is empty; so the records
\* regrouped by chromosome are the written buckets.
C7_BucketsPartitionGenes ==
    out_state = "written" =>
        /\ \A g \in Range(MatrixGenes) :
              /\ Cardinality(RecordsOf(g)) = 1
              /\ \A p \in RecordsOf(g) : WrittenChrs[p[1]] = TableChr(g)
        /\ \A i \in 1..Len(WrittenBuckets) :
              /\ BucketAnnots(WrittenBuckets[i]) # <<>>
              /\ Range(BucketGenes(WrittenBuckets[i]))
                    = {g \in Range(MatrixGenes) : TableChr(g) = WrittenChrs[i]}
              /\ Cardinality(Range(BucketGenes(WrittenBuckets[i])))
                    = Len(BucketAnnots(WrittenBuckets[i]))
              /\ \A k \in 1..Len(WrittenBuckets) :
                    WrittenChrs[i] = WrittenChrs[k] => i = k

\* a written file of two buckets, from a matrix that repeats a gene
C7_Witness ==
    /\ out_state = "written"
    /\ Len(WrittenBuckets) = 2
    /\ Len(MatrixGenes) < Len(RowGenes)

-----------------------------------------------------------------------------
(* C8 *)

\* C8: every written record has as many entries as the written keys, four
\* and one per cluster, and reads [gene id, start, stop - start, mean over
\* all cells, cluster means...]; its k-th cluster mean is the mean of the
\* cluster that the k-th cluster name of the keys names, and the names of
\* the keys are in declaration order.
C8_RecordLayout ==
    out_state = "written" =>
        /\ WrittenKeys = <<"name", "start", "length", "all">> \o DeclaredNames
        /\ \A i \in 1..Len(WrittenBuckets) :
           \A j \in 1..Len(BucketAnnots(WrittenBuckets[i])) :
              LET a == BucketAnnots(WrittenBuckets[i])[j]
                  g == a[1]
              IN  /\ Len(a) = Len(WrittenKeys)
                  /\ Len(a) = 4 + Cardinality(Range(cluster_names))
                  /\ a[2] = IntOf[TableLine(g)[3]]
                  /\ a[3] = IntOf[TableLine(g)[4]] - IntOf[TableLine(g)[3]]
                  /\ a[4] = RoundedMean(RowValues(g))
                  /\ \A k \in 1..Len(DeclaredNames) :
                        a[4 + k] = mean_cluster_expression(
                                       MembersOf(WrittenKeys[4 + k]),
                                       matrix.cells, RowValues(g), g).val

\* a written record of two clusters whose means differ
C8_Witness ==
    /\ out_state = "written"
    /\ Len(DeclaredNames) = 2
    /\ \E i \in 1..Len(WrittenBuckets) :
          /\ Len(BucketAnnots(WrittenBuckets[i])[1]) = 6
          /\ BucketAnnots(WrittenBuckets[i])[1][5]
                # BucketAnnots(WrittenBuckets[i])[1][6]

-----------------------------------------------------------------------------
(* C9 *)

\* the order the matrix and the position table fix: the chromosomes in the
\* order the genes of the matrix first meet them, each with its genes in
\* the order of their first rows
ExpectedOrder ==
    LET chrs == FirstOccurrences([i \in 1..Len(MatrixGenes) |->
                                     TableChr(MatrixGenes[i])])
    IN  [i \in 1..Len(chrs) |->
            <<chrs[i], SelectSeq(MatrixGenes, LAMBDA g : TableChr(g) = chrs[i])>>]

\* the order of the output of the same run over a position file pos_lines
OrderWith(pos_lines) ==
    LET g == get_genes(pos_lines)
        r == IF g.ok THEN get_ideogram_annots(expression_means, g.val, clusters)
             ELSE g
    IN  IF r.ok
        THEN Ok([i \in 1..Len(r.val.annots) |->
                    <<r.val.annots[i].chr,
                      [j \in 1..Len(r.val.annots[i].annots) |->
                          r.val.annots[i].annots[j][1]]>>])
        ELSE r

\* the position file with its lines in another order
LineOrders(n) == {f \in [1..n -> 1..n] : \A i, j \in 1..n : f[i] = f[j] => i = j}
Reordered(f) == [i \in 1..Len(fs_gen_pos) |-> fs_gen_pos[f[i]]]

TableIdsUnique ==
    \A i, j \in 1..Len(TableIds) : TableIds[i] = TableIds[j] => i = j

\* C9, as claimed: the order of the buckets and of their records is the one
\* the matrix row order fixes, and no reordering of the lines of the
\* position file changes it.
C9_OrderWhateverTheLineOrder ==
    out_state = "written" =>
        /\ WrittenOrder = ExpectedOrder
        /\ \A f \in LineOrders(Len(fs_gen_pos)) :
              OrderWith(Reordered(f)).ok =>
                  OrderWith(Reordered(f)).val = WrittenOrder

\* C9, amended: the order of the buckets and of their records is the one
\* the matrix row order fixes, whatever the clusters are; and when no gene
\* id occurs on two lines of the position file, no reordering of its lines
\* changes it.
C9_OrderFollowsMatrixRows ==
    out_state = "written" =>
        /\ WrittenOrder = ExpectedOrder
        /\ TableIdsUnique =>
              \A f \in LineOrders(Len(fs_gen_pos)) :
                  /\ OrderWith(Reordered(f)).ok
                  /\ OrderWith(Reordered(f)).val = WrittenOrder

\* a written file of two buckets that come in the order of the matrix rows
\* and against the order of the lines of the position file
C9_Witness ==
    /\ out_state = "written"
    /\ TableIdsUnique
    /\ Len(fs_gen_pos) = 2
    /\ WrittenChrs = <<fs_gen_pos[2][2], fs_gen_pos[1][2]>>
    /\ WrittenChrs[1] # WrittenChrs[2]

====
